---- MODULE Spec2Model ----
(***************************************************************************)
(* Token-swap escrow contract (partial-fill variant,                       *)
(* src/SmartContract/lib.rs).  The contract's storage (swaps, swap_count,  *)
(* delegated_contract, owner), the host's block number and the ledgers of  *)
(* the token contracts it calls are the state; every message is one        *)
(* action, which runs the whole method body.                               *)
(*                                                                         *)
(* Integer widths are scaled down: Balance (u128) is 0..BalMax, the swap   *)
(* counter (u64) is 0..CountMax and BlockNumber (u32) is 0..BlockMax.      *)
(* `checked_add` fails above the maximum; a plain `+` either panics (the   *)
(* call traps and the host rolls it back) or wraps, depending on the       *)
(* build's overflow-checks setting, which the source does not fix: every   *)
(* overflowing `+` is a choice between the two, which covers both builds.  *)
(*                                                                         *)
(* A method's effects are those of its body: what it has written or        *)
(* transferred before an `Err` is returned stays written, as the source    *)
(* has no rollback of its own.                                             *)
(*                                                                         *)
(* Token contracts are honest ledgers that let the swap contract move a    *)
(* holder's tokens; a call to one may still fail to execute (ink_env error)*)
(* or fail to decode (LangError).  A transfer of more than the holder has  *)
(* makes the token trap, which the caller sees as an ink_env error.        *)
(*                                                                         *)
(* Spec runs every message as one step.  SpecRecreate is Spec with swaps   *)
(* of amount zero, which lets the counter reach its maximum.               *)
(* SpecReentrant takes accept_swap one token call at a time and lets the   *)
(* called token contract call back.  SpecSingle is the single-shot variant *)
(* of the contract (src/lib.rs).                                           *)
(***************************************************************************)
EXTENDS Integers, FiniteSets, Sequences, TLC

VARIABLES
    swaps,              \* Mapping<u64, Swap>: function from the stored ids to records
    swap_count,         \* u64
    delegated_contract, \* Option<AccountId>
    owner,              \* AccountId
    block,              \* self.env().block_number()
    bal,                \* bal[token][holder]: the token contracts' ledgers
    ret,                \* the last call: the message and its result
    issued,             \* the ids returned by successful create_swap calls so far
    deleted,            \* the ids on which a delete_swap has succeeded so far
    frame               \* the accept_swap that is waiting for a token contract to return, if any

vars == <<swaps, swap_count, delegated_contract, owner, block, bal, ret, issued, deleted, frame>>

----------------------------------------------------------------------------
(* Bounds *)

BalMax == 3     \* largest Balance
CountMax == 1   \* largest u64 (swap ids and swap_count)
BlockMax == 1   \* largest BlockNumber

Accounts == {"alice", "bob"}
Deployer == "alice"
Contract == "swap"
Holders == Accounts \cup {Contract}
TokenA == "tA"
TokenB == "tB"
Tokens == {TokenA, TokenB}
Delegates == {"dlg"}
None == "none"

\* no accept_swap is waiting for a token contract
NoFrame == [call |-> None]
NoVal == -1

IdInputs == 0..CountMax
CreateAmountsA == {1}
CreateAmountsB == {2}
Fills == {<<0, 1>>, <<1, 1>>, <<BalMax, 1>>}   \* <<amount_a, amount_b>> of accept_swap
Durations == {0, BlockMax}
AcceptorInputs == {None, "bob"}
CreateOptions == {<<0, None>>, <<0, "bob">>, <<BlockMax, None>>}   \* <<duration, allowed_acceptor>> of create_swap

\* What the ledgers hold when the contract is deployed.
InitialBalance(token, holder) ==
    CASE holder = Contract -> 0
      [] holder = "alice" -> IF token = TokenA THEN 1 ELSE 2
      [] OTHER -> 1

\* How a cross-contract call ends: Ok(Ok(v)), Ok(Err(LangError)), Err(ink_env::Error)
CallOutcomes == {"ok", "lang_err", "env_err"}

\* The outcomes of the calls a method makes, in order.  A method returns at its
\* first failed call, so the outcomes after a failure are never drawn.
CallPlans(n) ==
    {p \in [1..n -> CallOutcomes] : \A i \in 1..n, j \in 1..n : (i < j /\ p[i] # "ok") => p[j] = "ok"}
CreatePlans == CallPlans(3)   \* balance_of, balance_of, transfer (or the delegate call alone)
AcceptPlans == CallPlans(2)   \* transfer, transfer

----------------------------------------------------------------------------
(* Arithmetic *)

\* u64/u32 checked_add: NoVal stands for Rust's None
CheckedAdd(x, y, max) == IF x + y > max THEN NoVal ELSE x + y

\* Balance `+`: overflows above BalMax
AddOverflows(x, y) == x + y > BalMax
WrappingAdd(x, y) == (x + y) % (BalMax + 1)

----------------------------------------------------------------------------
(* Registry *)

Insert(m, id, rec) == [i \in DOMAIN m \cup {id} |-> IF i = id THEN rec ELSE m[i]]
Remove(m, id) == [i \in DOMAIN m \ {id} |-> m[i]]
Contains(m, id) == id \in DOMAIN m

EmptySwaps == [i \in {} |-> None]

----------------------------------------------------------------------------
(* Cross-contract calls *)

\* get_balance: the result of the balance_of call under outcome o
GetBalance(ledger, token, account, o) ==
    CASE o = "ok" -> [err |-> "Ok", val |-> ledger[token][account]]
      [] o = "lang_err" -> [err |-> "InsufficientBalance", val |-> NoVal]
      [] OTHER -> [err |-> "CallFailed", val |-> NoVal]

\* The token contract's own transfer(from, to, amount)
LedgerMove(ledger, token, from, to, amount) ==
    IF from = to THEN ledger
    ELSE [ledger EXCEPT ![token][from] = @ - amount, ![token][to] = @ + amount]

\* transfer_token: the result of the transfer call under outcome o, and the ledger after it
TransferToken(ledger, token, from, to, amount, o) ==
    CASE o = "ok" /\ ledger[token][from] >= amount ->
            [err |-> "Ok", bal |-> LedgerMove(ledger, token, from, to, amount)]
      [] o = "lang_err" -> [err |-> "TransferFailed", bal |-> ledger]
      [] OTHER -> [err |-> "CallFailed", bal |-> ledger]

\* A mapping of the delegate call's failures with the two errors exchanged
DelegateCallSwapped(o) ==
    CASE o = "ok" -> "Ok"
      [] o = "lang_err" -> "DelegateFailed"
      [] OTHER -> "DelegateFunctionFailed"

\* The create_swap_delegate call's result under outcome o
DelegateCall(o) ==
    CASE o = "ok" -> "Ok"
      [] o = "lang_err" -> "DelegateFunctionFailed"
      [] OTHER -> "DelegateFailed"

----------------------------------------------------------------------------
(* Predicates of the methods *)

\* An owner check that lets every caller through
NotOwnerNever(caller) == FALSE

\* set_delegated_contract: caller != owner
NotOwner(caller) == caller # owner

\* A comparison that lets a balance one short of the amount through
BalanceTooLowByTwo(balance, amount) == balance + 1 < amount

\* create_swap: balance < amount
BalanceTooLow(balance, amount) == balance < amount

\* A creator check that lets every caller through
NotCreatorNever(caller, swap) == FALSE

\* delete_swap: caller != creator
NotCreator(caller, swap) == caller # swap.creator

\* An acceptor check that forgets that allowed_acceptor is optional
AcceptorRejectedAlways(caller, swap) == caller # swap.allowed_acceptor

\* accept_swap: allowed_acceptor is Some(a) and caller != a
AcceptorRejected(caller, swap) ==
    swap.allowed_acceptor # None /\ caller # swap.allowed_acceptor

\* accept_swap: block_number > expiration
Expired(swap) == block > swap.expiration

\* A bound check that is off by one
ExceedsRequiredByTwo(sum, required) == sum > required + 1

\* accept_swap: one leg of the bound check, sum being fill + accepted
ExceedsRequired(sum, required) == sum > required

NewSwap(caller, token_a, token_b, amount_a, amount_b, expiration, allowed_acceptor) ==
    [creator |-> caller, token_a |-> token_a, token_b |-> token_b,
     amount_a |-> amount_a, amount_b |-> amount_b, expiration |-> expiration,
     accepted_a |-> 0, accepted_b |-> 0, allowed_acceptor |-> allowed_acceptor]

UpdatedSwap(swap, sum_a, sum_b) ==
    [swap EXCEPT !.accepted_a = sum_a, !.accepted_b = sum_b]

----------------------------------------------------------------------------
(* The methods as functions of the state, the arguments and the outcomes of *)
(* the cross-contract calls they make.  Each yields the result, the value   *)
(* returned, the cross-contract calls issued (in order) and the storage and *)
(* ledgers as the method leaves them.                                       *)

Outcome(res, val, calls, sw, cnt, ledger) ==
    [res |-> res, val |-> val, calls |-> calls, swaps |-> sw, swap_count |-> cnt, bal |-> ledger]

\* A method that returns before it has written or transferred anything
Unchanged(res, calls) == Outcome(res, NoVal, calls, swaps, swap_count, bal)

\* The number of transfer calls among the calls issued
Transfers(calls) == Cardinality({i \in DOMAIN calls : calls[i] = "transfer"})

CreateSwapDelegated(o) ==
    LET result == DelegateCall(o)
        calls == <<"create_swap_delegate">>
    IN  IF result = "Ok" THEN Outcome("Ok", swap_count, calls, swaps, swap_count, bal)
        ELSE Unchanged(result, calls)

CreateSwapLocal(caller, token_a, token_b, amount_a, amount_b, duration, allowed_acceptor, o1, o2, o3) ==
    LET balance_a == GetBalance(bal, token_a, caller, o1)
        balance_b == GetBalance(bal, token_b, caller, o2)
        escrow == TransferToken(bal, token_a, caller, Contract, amount_a, o3)
        expiration == CheckedAdd(block, duration, BlockMax)
        new_swap == NewSwap(caller, token_a, token_b, amount_a, amount_b, expiration, allowed_acceptor)
        stored == Insert(swaps, swap_count, new_swap)
        next_count == CheckedAdd(swap_count, 1, CountMax)
        query1 == <<"balance_of">>
        query2 == <<"balance_of", "balance_of">>
        all == <<"balance_of", "balance_of", "transfer">>
    IN  IF balance_a.err # "Ok" THEN Unchanged(balance_a.err, query1)
        ELSE IF BalanceTooLow(balance_a.val, amount_a) THEN Unchanged("InsufficientBalance", query1)
        ELSE IF balance_b.err # "Ok" THEN Unchanged(balance_b.err, query2)
        ELSE IF BalanceTooLow(balance_b.val, amount_b) THEN Unchanged("InsufficientBalance", query2)
        ELSE IF escrow.err # "Ok" THEN Unchanged(escrow.err, all)
        ELSE IF expiration = NoVal THEN Outcome("CallFailed", NoVal, all, swaps, swap_count, escrow.bal)
        ELSE IF next_count = NoVal THEN Outcome("CallFailed", NoVal, all, stored, swap_count, escrow.bal)
        ELSE Outcome("Ok", swap_count, all, stored, next_count, escrow.bal)

CreateSwapRun(caller, token_a, token_b, amount_a, amount_b, duration, allowed_acceptor, o1, o2, o3) ==
    IF delegated_contract # None
    THEN CreateSwapDelegated(o1)
    ELSE CreateSwapLocal(caller, token_a, token_b, amount_a, amount_b, duration, allowed_acceptor, o1, o2, o3)

DeleteSwapRun(caller, swap_id) ==
    IF ~Contains(swaps, swap_id) THEN Unchanged("SwapNotFound", <<>>)
    ELSE IF NotCreator(caller, swaps[swap_id]) THEN Unchanged("Unauthorized", <<>>)
    ELSE Outcome("Ok", NoVal, <<>>, Remove(swaps, swap_id), swap_count, bal)

\* Lines 276-297 of accept_swap: the bound check, the two transfers, the write-back
AcceptSwapFill(caller, swap_id, swap, amount_a, amount_b, wraps, o1, o2) ==
    LET sum_a == WrappingAdd(amount_a, swap.accepted_a)
        sum_b == WrappingAdd(amount_b, swap.accepted_b)
        leg_a == TransferToken(bal, swap.token_a, caller, swap.creator, amount_a, o1)
        leg_b == TransferToken(leg_a.bal, swap.token_b, caller, swap.creator, amount_b, o2)
    IN  IF AddOverflows(amount_a, swap.accepted_a) /\ ~wraps THEN Unchanged("Trap", <<>>)
        ELSE IF ExceedsRequired(sum_a, swap.amount_a) THEN Unchanged("InsufficientBalance", <<>>)
        ELSE IF AddOverflows(amount_b, swap.accepted_b) /\ ~wraps THEN Unchanged("Trap", <<>>)
        ELSE IF ExceedsRequired(sum_b, swap.amount_b) THEN Unchanged("InsufficientBalance", <<>>)
        ELSE IF leg_a.err # "Ok" THEN Unchanged(leg_a.err, <<"transfer">>)
        ELSE IF leg_b.err # "Ok"
             THEN Outcome(leg_b.err, NoVal, <<"transfer", "transfer">>, swaps, swap_count, leg_a.bal)
        ELSE Outcome("Ok", NoVal, <<"transfer", "transfer">>,
                     Insert(swaps, swap_id, UpdatedSwap(swap, sum_a, sum_b)),
                     swap_count, leg_b.bal)

AcceptSwapRun(caller, swap_id, amount_a, amount_b, wraps, o1, o2) ==
    IF ~Contains(swaps, swap_id) THEN Unchanged("SwapNotFound", <<>>)
    ELSE IF AcceptorRejected(caller, swaps[swap_id]) THEN Unchanged("Unauthorized", <<>>)
    ELSE IF Expired(swaps[swap_id]) THEN Unchanged("SwapExpired", <<>>)
    ELSE AcceptSwapFill(caller, swap_id, swaps[swap_id], amount_a, amount_b, wraps, o1, o2)

\* Outcomes are drawn only for the calls a method issues: plan p fits run r when it
\* names no failure beyond the last call r issued.
PlanFits(p, r) == \A i \in DOMAIN p : i > Len(r.calls) => p[i] = "ok"

\* Whether an overflowing `+` of accept_swap wraps (TRUE) or panics (FALSE): a
\* choice only where one of its additions overflows.
OverflowChoices(swap_id, amount_a, amount_b) ==
    IF /\ Contains(swaps, swap_id)
       /\ \/ AddOverflows(amount_a, swaps[swap_id].accepted_a)
          \/ AddOverflows(amount_b, swaps[swap_id].accepted_b)
    THEN BOOLEAN ELSE {FALSE}

----------------------------------------------------------------------------
(* Actions *)

\* The storage and ledgers become what the method left, and the call is recorded.
\* (The actions bind r to the one run of the method, so that it is computed once.)
Apply(op, r) ==
    /\ swaps' = r.swaps
    /\ swap_count' = r.swap_count
    /\ bal' = r.bal
    /\ ret' = [op |-> op, res |-> r.res]

Init ==
    /\ swaps = EmptySwaps
    /\ swap_count = 0
    /\ delegated_contract = None
    /\ owner = Deployer
    /\ block = 0
    /\ bal = [t \in Tokens |-> [h \in Holders |-> InitialBalance(t, h)]]
    /\ ret = [op |-> "new", res |-> "Ok"]
    /\ issued = {}
    /\ deleted = {}
    /\ frame = NoFrame

SetDelegatedContract(caller, contract) ==
    /\ delegated_contract' = IF NotOwner(caller) THEN delegated_contract ELSE contract
    /\ ret' = [op |-> "set_delegated_contract", res |-> "Unit"]
    /\ UNCHANGED <<swaps, swap_count, owner, block, bal, issued, deleted, frame>>

CreateSwap(caller, token_a, token_b, amount_a, amount_b, duration, allowed_acceptor, o1, o2, o3) ==
    \E r \in {CreateSwapRun(caller, token_a, token_b, amount_a, amount_b, duration, allowed_acceptor, o1, o2, o3)} :
        /\ PlanFits(<<o1, o2, o3>>, r)
        /\ Apply("create_swap", r)
        /\ issued' = IF r.res = "Ok" THEN issued \cup {r.val} ELSE issued
        /\ UNCHANGED <<delegated_contract, owner, block, deleted, frame>>

DeleteSwap(caller, swap_id) ==
    \E r \in {DeleteSwapRun(caller, swap_id)} :
        /\ Apply("delete_swap", r)
        /\ deleted' = IF r.res = "Ok" THEN deleted \cup {swap_id} ELSE deleted
        /\ UNCHANGED <<delegated_contract, owner, block, issued, frame>>

AcceptSwap(caller, swap_id, amount_a, amount_b, o1, o2) ==
    \E wraps \in OverflowChoices(swap_id, amount_a, amount_b) :
        \E r \in {AcceptSwapRun(caller, swap_id, amount_a, amount_b, wraps, o1, o2)} :
            /\ PlanFits(<<o1, o2>>, r)
            /\ Apply("accept_swap", r)
            /\ UNCHANGED <<delegated_contract, owner, block, issued, deleted, frame>>

\* The chain produces a block
NextBlock ==
    /\ block < BlockMax
    /\ block' = block + 1
    /\ UNCHANGED <<swaps, swap_count, delegated_contract, owner, bal, ret, issued, deleted, frame>>

Next ==
    \/ \E caller \in Accounts, contract \in Delegates : SetDelegatedContract(caller, contract)
    \/ \E caller \in Accounts, amount_a \in CreateAmountsA, amount_b \in CreateAmountsB,
          option \in CreateOptions, p \in CreatePlans :
            CreateSwap(caller, TokenA, TokenB, amount_a, amount_b, option[1], option[2], p[1], p[2], p[3])
    \/ \E caller \in Accounts, swap_id \in IdInputs : DeleteSwap(caller, swap_id)
    \/ \E caller \in Accounts, swap_id \in IdInputs, fill \in Fills, p \in AcceptPlans :
            AcceptSwap(caller, swap_id, fill[1], fill[2], p[1], p[2])
    \/ NextBlock

Spec == Init /\ [][Next]_vars

----------------------------------------------------------------------------
(* The same contract driven with zero-amount swaps, which need no funds: a  *)
(* caller can create any number of them, so the swap counter reaches its    *)
(* maximum and stays there over several create_swap calls.                  *)

ZeroAmounts == {0}
ZeroFills == {<<0, 0>>}
AllOk == {p \in CreatePlans : \A i \in DOMAIN p : p[i] = "ok"}

NextRecreate ==
    \/ \E caller \in Accounts, contract \in Delegates : SetDelegatedContract(caller, contract)
    \/ \E caller \in Accounts, amount_a \in ZeroAmounts, amount_b \in ZeroAmounts, p \in AllOk :
            CreateSwap(caller, TokenA, TokenB, amount_a, amount_b, 0, None, p[1], p[2], p[3])
    \/ \E caller \in Accounts, swap_id \in IdInputs : DeleteSwap(caller, swap_id)
    \/ \E caller \in Accounts, swap_id \in IdInputs, fill \in ZeroFills :
            AcceptSwap(caller, swap_id, fill[1], fill[2], "ok", "ok")
    \/ NextBlock

SpecRecreate == Init /\ [][NextRecreate]_vars

----------------------------------------------------------------------------
(* The single-shot variant (src/lib.rs).  Its storage is a map of swaps and *)
(* a swap counter, held in swaps and swap_count; a record has no accepted   *)
(* amounts and no allowed acceptor.  A swap id is the hash built from the   *)
(* counter's eight bytes, which is one-to-one: the counter's value stands   *)
(* for it.  Time is the block timestamp, held in block.  An assert or       *)
(* expect that fails panics: the call traps and changes nothing.  A call to *)
(* a token contract that fails yields the default value (unwrap_or_default).*)
(* accept_swap is taken one token-contract call at a time; frame holds the  *)
(* call that is waiting for a token contract to return.                     *)

SingleHolders == Accounts \cup Tokens
SingleAmounts == {1}

SingleSwap(caller, token_a, token_b, amount_a, amount_b, expiration) ==
    [creator |-> caller, token_a |-> token_a, token_b |-> token_b,
     amount_a |-> amount_a, amount_b |-> amount_b, expiration |-> expiration]

\* balance_of(..).fire().unwrap_or_default()
SingleBalance(token, account, o) == IF o = "ok" THEN bal[token][account] ELSE 0

\* transfer_from(from, to, amount).fire().unwrap_or_default(): a failure is dropped
SingleTransfer(ledger, token, from, to, amount, o) ==
    IF o = "ok" /\ ledger[token][from] >= amount
    THEN LedgerMove(ledger, token, from, to, amount)
    ELSE ledger

SingleReturn(res) == ret' = [op |-> ret.op, res |-> res]

InitSingle ==
    /\ swaps = EmptySwaps
    /\ swap_count = 0
    /\ block = 0
    /\ bal = [t \in Tokens |-> [h \in SingleHolders |-> InitialBalance(t, h)]]
    /\ ret = [op |-> "new", res |-> "Ok"]
    /\ frame = NoFrame
    /\ delegated_contract = None
    /\ owner = None
    /\ issued = {}
    /\ deleted = {}

\* create_swap: `+` and `+=` either panic or wrap when they overflow
SingleCreateSwap(caller, token_a, token_b, amount_a, amount_b, duration, wraps, o) ==
    /\ frame = NoFrame
    /\ wraps \in (IF block + duration > BlockMax \/ swap_count + 1 > CountMax THEN BOOLEAN ELSE {FALSE})
    /\ IF \/ SingleBalance(token_a, caller, o) < amount_a
          \/ (block + duration > BlockMax \/ swap_count + 1 > CountMax) /\ ~wraps
       THEN /\ ret' = [op |-> "create_swap", res |-> "Trap"]
            /\ UNCHANGED <<swaps, swap_count>>
       ELSE /\ swaps' = Insert(swaps, swap_count,
                               SingleSwap(caller, token_a, token_b, amount_a, amount_b,
                                          (block + duration) % (BlockMax + 1)))
            /\ swap_count' = (swap_count + 1) % (CountMax + 1)
            /\ ret' = [op |-> "create_swap", res |-> "Ok"]
    /\ UNCHANGED <<delegated_contract, owner, block, bal, issued, deleted, frame>>

SingleDeleteSwap(caller, swap_id) ==
    /\ frame = NoFrame
    /\ IF Contains(swaps, swap_id) /\ caller = swaps[swap_id].creator
       THEN /\ swaps' = Remove(swaps, swap_id)
            /\ ret' = [op |-> "delete_swap", res |-> "Ok"]
       ELSE /\ ret' = [op |-> "delete_swap", res |-> "Trap"]
            /\ UNCHANGED swaps
    /\ UNCHANGED <<swap_count, delegated_contract, owner, block, bal, issued, deleted, frame>>

\* accept_swap, lines 103-122: the record is looked up and the first balance_of is sent
SingleAcceptCall(caller, swap_id) ==
    /\ frame = NoFrame
    /\ IF Contains(swaps, swap_id)
       THEN /\ frame' = [caller |-> caller, swap_id |-> swap_id, swap |-> swaps[swap_id],
                         call |-> "balance_of_b", saved |-> bal]
            /\ ret' = [op |-> "accept_swap", res |-> "Calling"]
       ELSE /\ ret' = [op |-> "accept_swap", res |-> "Trap"]
            /\ UNCHANGED frame
    /\ UNCHANGED <<swaps, swap_count, delegated_contract, owner, block, bal, issued, deleted>>

\* A panic of the waiting accept_swap: the call traps and what it did is undone
SingleAcceptPanics ==
    /\ frame' = NoFrame
    /\ bal' = frame.saved
    /\ SingleReturn("Trap")
    /\ UNCHANGED swaps

\* The waiting accept_swap goes on to its next token-contract call
SingleAcceptCalls(call, ledger) ==
    /\ frame' = [frame EXCEPT !.call = call]
    /\ bal' = ledger
    /\ SingleReturn("Calling")
    /\ UNCHANGED swaps

\* accept_swap, lines 122-182: the token contract returns with outcome o, and the
\* method runs on to its next call or to its end
SingleAcceptReturn(o) ==
    /\ frame # NoFrame
    /\ LET swap == frame.swap
           caller == frame.caller
       IN  CASE frame.call = "balance_of_b" ->
                    IF SingleBalance(swap.token_b, caller, o) >= swap.amount_b
                    THEN SingleAcceptCalls("balance_of_a", bal)
                    ELSE SingleAcceptPanics
             [] frame.call = "balance_of_a" ->
                    IF SingleBalance(swap.token_a, caller, o) >= swap.amount_a /\ block <= swap.expiration
                    THEN SingleAcceptCalls("transfer_from_a", bal)
                    ELSE SingleAcceptPanics
             [] frame.call = "transfer_from_a" ->
                    SingleAcceptCalls("transfer_from_b",
                        SingleTransfer(bal, swap.token_a, caller, swap.token_b, swap.amount_a, o))
             [] OTHER ->
                    /\ bal' = SingleTransfer(bal, swap.token_b, caller, swap.token_a, swap.amount_b, o)
                    /\ swaps' = Remove(swaps, frame.swap_id)
                    /\ frame' = NoFrame
                    /\ SingleReturn("Ok")
    /\ UNCHANGED <<swap_count, delegated_contract, owner, block, issued, deleted>>

\* Time passes between calls
SingleTick ==
    /\ frame = NoFrame
    /\ NextBlock

NextSingle ==
    \/ \E caller \in Accounts, amount_a \in SingleAmounts, amount_b \in SingleAmounts,
          duration \in Durations, wraps \in BOOLEAN, o \in CallOutcomes :
            SingleCreateSwap(caller, TokenA, TokenB, amount_a, amount_b, duration, wraps, o)
    \/ \E caller \in Accounts, swap_id \in IdInputs : SingleDeleteSwap(caller, swap_id)
    \/ \E caller \in Accounts, swap_id \in IdInputs : SingleAcceptCall(caller, swap_id)
    \/ \E o \in CallOutcomes : SingleAcceptReturn(o)
    \/ SingleTick

SpecSingle == InitSingle /\ [][NextSingle]_vars

----------------------------------------------------------------------------
(* accept_swap with the token contracts calling back (src/SmartContract).   *)
(* accept_swap reads the record once (line 255), calls the two token        *)
(* contracts (lines 280-281) and writes the record it read back with the    *)
(* fill added (lines 285-297).  Here the method is taken one transfer call  *)
(* at a time: frame holds the accept_swap that waits for a token contract   *)
(* to return, with the record it read.  While it waits, the token contract  *)
(* that was called may call delete_swap or accept_swap of this contract,    *)
(* being the caller of that call; the call in the source sets no call flag, *)
(* and whether the host lets such a call in is not decided in the source.   *)
(* A token contract holds balances and may create swaps like any account.   *)
(* Calls made from a callback are not themselves called back into.          *)

ReentrantHolders == Holders \cup Tokens
ReentrantCreators == {"alice", TokenB}
ReentrantAcceptors == {"bob"}
ReentrantFills == {<<0, 0>>, <<1, 1>>}

InitReentrant ==
    /\ swaps = EmptySwaps
    /\ swap_count = 0
    /\ delegated_contract = None
    /\ owner = Deployer
    /\ block = 0
    /\ bal = [t \in Tokens |-> [h \in ReentrantHolders |-> InitialBalance(t, h)]]
    /\ ret = [op |-> "new", res |-> "Ok"]
    /\ issued = {}
    /\ deleted = {}
    /\ frame = NoFrame

\* Lines 251-278 of accept_swap: the error of its checks, "Ok" when it goes on to
\* the transfers (an overflowing `+` panics)
AcceptSwapChecks(caller, swap_id, amount_a, amount_b) ==
    LET r == AcceptSwapRun(caller, swap_id, amount_a, amount_b, FALSE, "env_err", "ok")
    IN  IF r.calls = <<>> THEN r.res ELSE "Ok"

\* The token contract that the waiting accept_swap has called
Callee == IF frame.call = "transfer_a" THEN frame.swap_data.token_a ELSE frame.swap_data.token_b

\* accept_swap, lines 251-280: the checks, the read of the record, and the call of
\* token A's transfer
ReentrantAcceptCall(caller, swap_id, amount_a, amount_b) ==
    /\ frame = NoFrame
    /\ \E res \in {AcceptSwapChecks(caller, swap_id, amount_a, amount_b)} :
           IF res = "Ok"
           THEN /\ frame' = [call |-> "transfer_a", caller |-> caller, swap_id |-> swap_id,
                             amount_a |-> amount_a, amount_b |-> amount_b,
                             swap_data |-> swaps[swap_id]]
                /\ ret' = [op |-> "accept_swap", res |-> "Calling"]
           ELSE /\ ret' = [op |-> "accept_swap", res |-> res]
                /\ UNCHANGED frame
    /\ UNCHANGED <<swaps, swap_count, delegated_contract, owner, block, bal, issued, deleted>>

\* accept_swap, lines 280-304: the token contract returns with outcome o; after
\* token A's transfer the method calls token B's, after token B's it writes the
\* record and returns; a failed transfer returns its error at once
ReentrantAcceptReturn(o) ==
    /\ frame # NoFrame
    /\ LET swap_data == frame.swap_data
           leg == IF frame.call = "transfer_a"
                  THEN TransferToken(bal, swap_data.token_a, frame.caller, swap_data.creator, frame.amount_a, o)
                  ELSE TransferToken(bal, swap_data.token_b, frame.caller, swap_data.creator, frame.amount_b, o)
           updated_swap == UpdatedSwap(swap_data, swap_data.accepted_a + frame.amount_a,
                                       swap_data.accepted_b + frame.amount_b)
       IN  /\ bal' = leg.bal
           /\ IF leg.err # "Ok"
              THEN /\ frame' = NoFrame
                   /\ ret' = [op |-> "accept_swap", res |-> leg.err]
                   /\ UNCHANGED swaps
              ELSE IF frame.call = "transfer_a"
              THEN /\ frame' = [frame EXCEPT !.call = "transfer_b"]
                   /\ ret' = [op |-> "accept_swap", res |-> "Calling"]
                   /\ UNCHANGED swaps
              ELSE /\ frame' = NoFrame
                   /\ ret' = [op |-> "accept_swap", res |-> "Ok"]
                   /\ swaps' = Insert(swaps, frame.swap_id, updated_swap)
    /\ UNCHANGED <<swap_count, delegated_contract, owner, block, issued, deleted>>

\* The token contract that was called calls delete_swap before it returns
CallbackDeleteSwap(swap_id) ==
    /\ frame # NoFrame
    /\ DeleteSwap(Callee, swap_id)

\* The token contract that was called calls accept_swap before it returns
CallbackAcceptSwap(swap_id, amount_a, amount_b, o1, o2) ==
    /\ frame # NoFrame
    /\ AcceptSwap(Callee, swap_id, amount_a, amount_b, o1, o2)

\* Calls from outside come one at a time
ReentrantCreateSwap(caller, amount_a, amount_b) ==
    /\ frame = NoFrame
    /\ CreateSwap(caller, TokenA, TokenB, amount_a, amount_b, BlockMax, None, "ok", "ok", "ok")

ReentrantDeleteSwap(caller, swap_id) ==
    /\ frame = NoFrame
    /\ DeleteSwap(caller, swap_id)

NextReentrant ==
    \/ \E caller \in ReentrantCreators : ReentrantCreateSwap(caller, 1, 1)
    \/ \E caller \in ReentrantCreators, swap_id \in IdInputs : ReentrantDeleteSwap(caller, swap_id)
    \/ \E caller \in ReentrantAcceptors, swap_id \in IdInputs, fill \in ReentrantFills :
            ReentrantAcceptCall(caller, swap_id, fill[1], fill[2])
    \/ \E o \in CallOutcomes : ReentrantAcceptReturn(o)
    \/ \E swap_id \in IdInputs : CallbackDeleteSwap(swap_id)
    \/ \E swap_id \in IdInputs, fill \in ReentrantFills :
            CallbackAcceptSwap(swap_id, fill[1], fill[2], "ok", "ok")

SpecReentrant == InitReentrant /\ [][NextReentrant]_vars

----------------------------------------------------------------------------
(* Properties.  A property of a call is stated either of the method run in  *)
(* a reachable state (an invariant over the method's result there) or of    *)
(* the step the call takes (an action property).                            *)

Called(op, res) == ret.op = op /\ ret.res = res

\* The method left the storage and the ledgers as they were
Untouched(r) == r.swaps = swaps /\ r.swap_count = swap_count /\ r.bal = bal

\* C1: every stored record has accepted_a <= amount_a and accepted_b <= amount_b.
AcceptedWithinAmounts ==
    \A id \in DOMAIN swaps :
        /\ swaps[id].accepted_a <= swaps[id].amount_a
        /\ swaps[id].accepted_b <= swaps[id].amount_b

\* C1: a fill has just brought a record to its full amounts on both legs.
FilledToTheBound ==
    /\ Called("accept_swap", "Ok")
    /\ \E id \in DOMAIN swaps :
        /\ swaps[id].accepted_a = swaps[id].amount_a
        /\ swaps[id].accepted_b = swaps[id].amount_b

\* C2: delete_swap by the creator of a stored swap succeeds, removes the record and
\* moves amount_a of token A from the contract's custody to the creator.
DeleteReturnsEscrow ==
    [][\A caller \in Accounts, id \in IdInputs :
        (Contains(swaps, id) /\ caller = swaps[id].creator /\ DeleteSwap(caller, id))
        => LET swap == swaps[id]
           IN  /\ ret'.res = "Ok"
               /\ ~Contains(swaps', id)
               /\ bal'[swap.token_a][caller] = bal[swap.token_a][caller] + swap.amount_a
               /\ bal'[swap.token_a][Contract] = bal[swap.token_a][Contract] - swap.amount_a]_vars

\* C3: a successful accept_swap by an acceptor other than the creator raises the
\* creator's token-B balance by the amount_b filled and the acceptor's token-A
\* balance by the amount_a filled.
AcceptExchangesTokens ==
    [][\A caller \in Accounts, id \in IdInputs, fill \in Fills, p \in AcceptPlans :
        (/\ Contains(swaps, id)
         /\ caller # swaps[id].creator
         /\ AcceptSwap(caller, id, fill[1], fill[2], p[1], p[2])
         /\ ret'.res = "Ok")
        => LET swap == swaps[id]
           IN  /\ bal'[swap.token_b][swap.creator] = bal[swap.token_b][swap.creator] + fill[2]
               /\ bal'[swap.token_a][caller] = bal[swap.token_a][caller] + fill[1]]_vars

\* C4: accept_swap on an expired swap, by a caller the swap admits, returns SwapExpired
\* and leaves the record as it was; and a delete_swap by the creator that follows
\* such a refusal gives the creator the amount_a of token A back.
ExpiredSwapStaysRecoverable ==
    [][/\ \A caller \in Accounts, id \in IdInputs, fill \in Fills, p \in AcceptPlans :
            (/\ Contains(swaps, id)
             /\ Expired(swaps[id])
             /\ ~AcceptorRejected(caller, swaps[id])
             /\ AcceptSwap(caller, id, fill[1], fill[2], p[1], p[2]))
            => ret'.res = "SwapExpired" /\ swaps' = swaps
       /\ \A id \in IdInputs :
            (/\ Called("accept_swap", "SwapExpired")
             /\ Contains(swaps, id)
             /\ Expired(swaps[id])
             /\ DeleteSwap(swaps[id].creator, id))
            => LET swap == swaps[id]
               IN  bal'[swap.token_a][swap.creator] = bal[swap.token_a][swap.creator] + swap.amount_a]_vars

\* C5: accept_swap with accepted_a + fill_a > amount_a or accepted_b + fill_b > amount_b
\* (on a stored, unexpired swap, by a caller it admits) returns InsufficientBalance,
\* issues no transfer and leaves the record and the ledgers as they were.
OverfillRejected ==
    [][\A caller \in Accounts, id \in IdInputs, fill \in Fills, p \in AcceptPlans :
        (/\ Contains(swaps, id)
         /\ ~AcceptorRejected(caller, swaps[id])
         /\ ~Expired(swaps[id])
         /\ \/ swaps[id].accepted_a + fill[1] > swaps[id].amount_a
            \/ swaps[id].accepted_b + fill[2] > swaps[id].amount_b
         /\ AcceptSwap(caller, id, fill[1], fill[2], p[1], p[2]))
        => /\ ret'.res = "InsufficientBalance"
           /\ \A wraps \in OverflowChoices(id, fill[1], fill[2]) :
                Transfers(AcceptSwapRun(caller, id, fill[1], fill[2], wraps, p[1], p[2]).calls) = 0
           /\ UNCHANGED <<swaps, bal>>]_vars

\* C6, as claimed: create_swap by a caller whose token-A balance is below amount_a
\* returns InsufficientBalance, issues no transfer and leaves the registry and
\* swap_count as they were.
CreateNeedsBalance ==
    [][\A caller \in Accounts, amount_a \in CreateAmountsA, amount_b \in CreateAmountsB,
         duration \in Durations, allowed_acceptor \in AcceptorInputs, p \in CreatePlans :
        (/\ bal[TokenA][caller] < amount_a
         /\ CreateSwap(caller, TokenA, TokenB, amount_a, amount_b, duration, allowed_acceptor, p[1], p[2], p[3]))
        => /\ ret'.res = "InsufficientBalance"
           /\ Transfers(CreateSwapRun(caller, TokenA, TokenB, amount_a, amount_b, duration, allowed_acceptor, p[1], p[2], p[3]).calls) = 0
           /\ UNCHANGED <<swaps, swap_count>>]_vars

\* C6, amended: with no delegate contract configured, create_swap by a caller whose
\* token-A balance is below amount_a fails (InsufficientBalance, or CallFailed when
\* the balance_of call could not be executed), issues no transfer and leaves the
\* registry, swap_count and the ledgers as they were.
CreateNeedsBalanceLocally ==
    \A caller \in Accounts, amount_a \in CreateAmountsA, amount_b \in CreateAmountsB,
       duration \in Durations, allowed_acceptor \in AcceptorInputs, p \in CreatePlans :
        (delegated_contract = None /\ bal[TokenA][caller] < amount_a /\ p[2] = "ok" /\ p[3] = "ok")
        => \A r \in {CreateSwapRun(caller, TokenA, TokenB, amount_a, amount_b, duration, allowed_acceptor, p[1], p[2], p[3])} :
               /\ r.res = IF p[1] = "env_err" THEN "CallFailed" ELSE "InsufficientBalance"
               /\ Transfers(r.calls) = 0
               /\ Untouched(r)

\* C6: a create_swap has just returned InsufficientBalance with no delegate configured,
\* in a state where no account holds enough token A for any amount_a.
CreateWasRefusedForBalance ==
    /\ Called("create_swap", "InsufficientBalance")
    /\ delegated_contract = None
    /\ \A caller \in Accounts, amount_a \in CreateAmountsA : bal[TokenA][caller] < amount_a

\* C7, on the local path (no delegate configured): a successful create_swap raises
\* swap_count by one and stores at the old swap_count a record with expiration =
\* block + duration and nothing accepted; a create_swap whose expiration or counter
\* increment overflows fails and leaves the registry, swap_count and the ledgers as
\* they were.
CreateCountsAndFailsCleanly ==
    [][\A caller \in Accounts, amount_a \in CreateAmountsA, amount_b \in CreateAmountsB,
         duration \in Durations, allowed_acceptor \in AcceptorInputs, p \in CreatePlans :
        (/\ delegated_contract = None
         /\ CreateSwap(caller, TokenA, TokenB, amount_a, amount_b, duration, allowed_acceptor, p[1], p[2], p[3]))
        => /\ ret'.res = "Ok"
              => /\ swap_count' = swap_count + 1
                 /\ Contains(swaps', swap_count)
                 /\ swaps'[swap_count].expiration = block + duration
                 /\ swaps'[swap_count].accepted_a = 0
                 /\ swaps'[swap_count].accepted_b = 0
           /\ (block + duration > BlockMax \/ swap_count + 1 > CountMax)
              => ret'.res # "Ok" /\ UNCHANGED <<swaps, swap_count, bal>>]_vars

\* C8: the id a successful create_swap returns is the number of ids returned by the
\* successful create_swap calls before it, and none of those ids.
IdsSequentialNeverReused ==
    \A caller \in Accounts, amount_a \in CreateAmountsA, amount_b \in CreateAmountsB,
       duration \in Durations, allowed_acceptor \in AcceptorInputs, p \in CreatePlans :
        \A r \in {CreateSwapRun(caller, TokenA, TokenB, amount_a, amount_b, duration, allowed_acceptor, p[1], p[2], p[3])} :
            r.res = "Ok" => r.val = Cardinality(issued) /\ r.val \notin issued

\* C9: delete_swap on a stored swap by anyone but its creator returns Unauthorized
\* and leaves the registry, swap_count and the ledgers as they were.
DeleteByOtherRejected ==
    \A caller \in Accounts, id \in DOMAIN swaps :
        caller # swaps[id].creator
        => \A r \in {DeleteSwapRun(caller, id)} :
               r.res = "Unauthorized" /\ Untouched(r)

\* C9: a delete_swap has just been refused as Unauthorized, the swap still stored.
DeleteWasRejected ==
    /\ Called("delete_swap", "Unauthorized")
    /\ \E id \in DOMAIN swaps : \E caller \in Accounts : caller # swaps[id].creator

\* C10: accept_swap on a swap restricted to an acceptor returns Unauthorized to every
\* other caller, issues no transfer and changes nothing; on an unrestricted swap, and
\* on an id that is not stored, it never returns Unauthorized.
AcceptAuthorization ==
    \A caller \in Accounts, id \in IdInputs, fill \in Fills, p \in AcceptPlans :
        \A wraps \in OverflowChoices(id, fill[1], fill[2]) :
        \A r \in {AcceptSwapRun(caller, id, fill[1], fill[2], wraps, p[1], p[2])} :
            IF Contains(swaps, id) /\ swaps[id].allowed_acceptor # None
            THEN caller # swaps[id].allowed_acceptor
                 => r.res = "Unauthorized" /\ Transfers(r.calls) = 0 /\ Untouched(r)
            ELSE r.res # "Unauthorized"

\* C10: an accept_swap has just been refused as Unauthorized, and a restricted swap is stored.
AcceptWasRejected ==
    /\ Called("accept_swap", "Unauthorized")
    /\ \E id \in DOMAIN swaps : swaps[id].allowed_acceptor # None

\* C11: an id on which delete_swap has succeeded is absent from the registry ever
\* after, so that delete_swap and accept_swap on it return SwapNotFound.
DeletedStaysAbsent ==
    \A id \in deleted :
        /\ ~Contains(swaps, id)
        /\ \A caller \in Accounts :
            /\ DeleteSwapRun(caller, id).res = "SwapNotFound"
            /\ AcceptSwapRun(caller, id, 0, 0, FALSE, "ok", "ok").res = "SwapNotFound"

\* C12: with a delegate configured, create_swap issues the delegate call and nothing
\* else (no balance query, no transfer), stores no record and leaves swap_count and
\* the ledgers as they were; it returns DelegateFailed when the call could not be
\* executed, DelegateFunctionFailed when the call returned a failure, Ok otherwise.
DelegatedCreateForwards ==
    delegated_contract # None
    => \A caller \in Accounts, amount_a \in CreateAmountsA, amount_b \in CreateAmountsB,
          duration \in Durations, allowed_acceptor \in AcceptorInputs, o \in CallOutcomes :
           \A r \in {CreateSwapRun(caller, TokenA, TokenB, amount_a, amount_b, duration, allowed_acceptor, o, "ok", "ok")} :
               /\ r.calls = <<"create_swap_delegate">>
               /\ Untouched(r)
               /\ r.res = CASE o = "env_err" -> "DelegateFailed"
                             [] o = "lang_err" -> "DelegateFunctionFailed"
                             [] OTHER -> "Ok"

\* C12: a create_swap has just been answered DelegateFunctionFailed by way of the
\* configured delegate, with nothing stored.
DelegateReportedFailure ==
    /\ Called("create_swap", "DelegateFunctionFailed")
    /\ delegated_contract # None
    /\ swaps = EmptySwaps

\* C13: the owner is the deployer and never changes; set_delegated_contract by any
\* other caller changes nothing of the contract's storage or the ledgers; and
\* delegated_contract only ever changes to a value the owner passed to
\* set_delegated_contract.
OwnerOnlyDelegate ==
    [][/\ owner = Deployer /\ owner' = owner
       /\ \A caller \in Accounts, contract \in Delegates :
            (caller # owner /\ SetDelegatedContract(caller, contract))
            => UNCHANGED <<delegated_contract, swaps, swap_count, owner, bal>>
       /\ delegated_contract' # delegated_contract
            => \E contract \in Delegates :
                SetDelegatedContract(owner, contract) /\ delegated_contract' = contract]_vars

\* C13: set_delegated_contract has just been called and no delegate is configured:
\* the caller was not the owner and the call was ignored.
StrangerWasIgnored ==
    /\ Called("set_delegated_contract", "Unit")
    /\ delegated_contract = None

\* C14: on an unrestricted, unexpired swap a fill within both bounds, by a caller who
\* holds the token B it pays and whose transfers are executed, succeeds and adds its
\* amounts to accepted_a and accepted_b; and once accepted_b equals amount_b, an
\* accept_swap with a positive amount_b returns InsufficientBalance.
FillsAccumulate ==
    [][\A caller \in Accounts, id \in IdInputs, fill \in Fills, p \in AcceptPlans :
        (/\ Contains(swaps, id)
         /\ swaps[id].allowed_acceptor = None
         /\ ~Expired(swaps[id])
         /\ AcceptSwap(caller, id, fill[1], fill[2], p[1], p[2]))
        => LET swap == swaps[id]
           IN  /\ (/\ swap.accepted_a + fill[1] <= swap.amount_a
                   /\ swap.accepted_b + fill[2] <= swap.amount_b
                   /\ caller # swap.creator
                   /\ bal[swap.token_b][caller] >= fill[2]
                   /\ p[1] = "ok" /\ p[2] = "ok")
                  => /\ ret'.res = "Ok"
                     /\ swaps'[id].accepted_a = swap.accepted_a + fill[1]
                     /\ swaps'[id].accepted_b = swap.accepted_b + fill[2]
               /\ (swap.accepted_b = swap.amount_b /\ fill[2] > 0)
                  => ret'.res = "InsufficientBalance"]_vars

\* C15: every stored record is still open: it lacks some of amount_a or some of
\* amount_b (a swap filled on both legs has been removed).
StoredRecordsAreOpen ==
    \A id \in DOMAIN swaps :
        \/ swaps[id].accepted_a < swaps[id].amount_a
        \/ swaps[id].accepted_b < swaps[id].amount_b

\* C16: while the single-shot accept_swap waits for a token contract to return, the
\* swap it accepts is no longer in the registry.
RemovedBeforeCalls == frame # NoFrame => ~Contains(swaps, frame.swap_id)

\* C17: a swap that a token contract's callback deleted while accept_swap waited for
\* that token contract is still absent when the accept_swap has completed.
DeletedInFlightStaysAbsent ==
    [][(frame # NoFrame /\ frame' = NoFrame /\ ~Contains(swaps, frame.swap_id))
            => ~Contains(swaps', frame.swap_id)]_vars

\* C18: an accept_swap that completes adds its fill to the accepted amounts the
\* record holds at that moment, those of accepts made from a callback included, and
\* the accepted amounts stay within amount_a and amount_b.
NoLostUpdate ==
    [][(frame # NoFrame /\ frame' = NoFrame /\ ret'.res = "Ok" /\ Contains(swaps, frame.swap_id))
            => /\ swaps'[frame.swap_id].accepted_a = swaps[frame.swap_id].accepted_a + frame.amount_a
               /\ swaps'[frame.swap_id].accepted_b = swaps[frame.swap_id].accepted_b + frame.amount_b]_vars

\* C19: every id in the registry is below swap_count, also when swap_count is at its
\* maximum, and no call lowers swap_count.
StoredIdsBelowCount ==
    /\ \A id \in DOMAIN swaps : id < swap_count
    /\ \A caller \in Accounts, p \in CreatePlans :
            \A r \in {CreateSwapRun(caller, TokenA, TokenB, 1, 2, 0, None, p[1], p[2], p[3])} :
                r.swap_count >= swap_count
    /\ \A caller \in Accounts, swap_id \in IdInputs :
            DeleteSwapRun(caller, swap_id).swap_count >= swap_count

\* C20: an accept_swap that returns an error leaves the registry, swap_count and the
\* token balances as they were before the call.
AcceptFailsCleanly ==
    \A caller \in Accounts, swap_id \in IdInputs, fill \in Fills, p \in AcceptPlans :
        \A wraps \in OverflowChoices(swap_id, fill[1], fill[2]) :
            \A r \in {AcceptSwapRun(caller, swap_id, fill[1], fill[2], wraps, p[1], p[2])} :
                r.res \notin {"Ok", "Trap"} => Untouched(r)

====
